---- MODULE Spec2Model ----
(***************************************************************************)
(* xsd2pgsql: the conversion of an XSD document into CREATE TABLE          *)
(* statements (src/xsd2pgsql.py).                                          *)
(*                                                                         *)
(* Strings are sequences of one-character strings, so that replace, lower, *)
(* split, %-formatting and concatenation are computed as Python computes   *)
(* them.  The parsed document is a tree of records; a node is addressed by *)
(* its path, the sequence of child indices leading to it from the schema   *)
(* element.  The recursion of look4element is an explicit stack of frames. *)
(***************************************************************************)
EXTENDS Integers, Sequences, FiniteSets, TLC

\* Bound of the model: the number of leaf elements put in a generated
\* element list.
MaxLeaves == 2

\* src/xsd2pgsql.py:37
MAX_RECURSE_LEVEL == 100

(***************************************************************************)
(* Python values that are not strings.  Their one element is not a single  *)
(* character, so none of them equals a string.                             *)
(***************************************************************************)
None == <<"<None>">>
KeyError == <<"<KeyError>">>
TypeError == <<"<TypeError>">>

\* Python truthiness of a str-or-None value
Truthy(v) == v # None /\ v # <<>>

\* a or b
Or(a, b) == IF Truthy(a) THEN a ELSE b

IsRaised(v) == v \in {KeyError, TypeError}

(***************************************************************************)
(* str methods                                                             *)
(***************************************************************************)
UpperCase == <<"A","B","C","D","E","F","G","H","I","J","K","L","M",
               "N","O","P","Q","R","S","T","U","V","W","X","Y","Z">>
LowerCase == <<"a","b","c","d","e","f","g","h","i","j","k","l","m",
               "n","o","p","q","r","s","t","u","v","w","x","y","z">>

LowerChar(c) ==
  IF \E i \in 1..Len(UpperCase) : UpperCase[i] = c
  THEN LowerCase[CHOOSE i \in 1..Len(UpperCase) : UpperCase[i] = c]
  ELSE c

\* str.lower()
StrLower(s) == [i \in 1..Len(s) |-> LowerChar(s[i])]

\* str.replace(old, new): every non-overlapping occurrence, left to right
RECURSIVE StrReplace(_, _, _)
StrReplace(s, old, new) ==
  IF Len(s) < Len(old) THEN s
  ELSE IF SubSeq(s, 1, Len(old)) = old
       THEN new \o StrReplace(SubSeq(s, Len(old) + 1, Len(s)), old, new)
       ELSE <<s[1]>> \o StrReplace(Tail(s), old, new)

\* s.split(sep)[0]
RECURSIVE SplitFirst(_, _)
SplitFirst(s, sep) ==
  IF s = <<>> \/ s[1] = sep THEN <<>>
  ELSE <<s[1]>> \o SplitFirst(Tail(s), sep)

\* the position of the first c in s, 0 when there is none
IndexOf(s, c) ==
  IF \E i \in 1..Len(s) : s[i] = c
  THEN CHOOSE i \in 1..Len(s) : s[i] = c /\ \A j \in 1..(i - 1) : s[j] # c
  ELSE 0

(***************************************************************************)
(* XSD to Postgres data type translation dictionary                        *)
(***************************************************************************)
DEFX2P ==
  <<"s", "t", "r", "i", "n", "g">> :> <<"v", "a", "r", "c", "h", "a", "r">> @@
  <<"b", "o", "o", "l", "e", "a", "n">> :> <<"b", "o", "o", "l", "e", "a", "n">> @@
  <<"d", "e", "c", "i", "m", "a", "l">> :> <<"n", "u", "m", "e", "r", "i", "c">> @@
  <<"f", "l", "o", "a", "t">> :> <<"r", "e", "a", "l">> @@
  <<"d", "o", "u", "b", "l", "e">> :> <<"d", "o", "u", "b", "l", "e", " ", "p", "r", "e", "c", "i", "s", "i", "o", "n">> @@
  <<"d", "u", "r", "a", "t", "i", "o", "n">> :> <<"i", "n", "t", "e", "r", "v", "a", "l">> @@
  <<"d", "a", "t", "e", "T", "i", "m", "e">> :> <<"t", "i", "m", "e", "s", "t", "a", "m", "p">> @@
  <<"t", "i", "m", "e">> :> <<"t", "i", "m", "e">> @@
  <<"d", "a", "t", "e">> :> <<"d", "a", "t", "e">> @@
  <<"g", "Y", "e", "a", "r", "M", "o", "n", "t", "h">> :> <<"t", "i", "m", "e", "s", "t", "a", "m", "p">> @@
  <<"g", "Y", "e", "a", "r">> :> <<"t", "i", "m", "e", "s", "t", "a", "m", "p">> @@
  <<"g", "M", "o", "n", "t", "h", "D", "a", "y">> :> <<"t", "i", "m", "e", "s", "t", "a", "m", "p">> @@
  <<"g", "D", "a", "y">> :> <<"t", "i", "m", "e", "s", "t", "a", "m", "p">> @@
  <<"g", "M", "o", "n", "t", "h">> :> <<"t", "i", "m", "e", "s", "t", "a", "m", "p">> @@
  <<"h", "e", "x", "B", "i", "n", "a", "r", "y">> :> <<"b", "y", "t", "e", "a">> @@
  <<"b", "a", "s", "e", "6", "4", "B", "i", "n", "a", "r", "y">> :> <<"b", "y", "t", "e", "a">> @@
  <<"a", "n", "y", "U", "R", "I">> :> <<"v", "a", "r", "c", "h", "a", "r">> @@
  <<"Q", "N", "a", "m", "e">> :> None @@
  <<"N", "O", "T", "A", "T", "I", "O", "N">> :> None @@
  <<"n", "o", "r", "m", "a", "l", "i", "z", "e", "d", "S", "t", "r", "i", "n", "g">> :> <<"%", "(", "s", "t", "r", "i", "n", "g", ")", "s">> @@
  <<"t", "o", "k", "e", "n">> :> <<"%", "(", "s", "t", "r", "i", "n", "g", ")", "s">> @@
  <<"l", "a", "n", "g", "u", "a", "g", "e">> :> <<"%", "(", "s", "t", "r", "i", "n", "g", ")", "s">> @@
  <<"N", "M", "T", "O", "K", "E", "N">> :> None @@
  <<"N", "M", "T", "O", "K", "E", "N", "S">> :> None @@
  <<"N", "a", "m", "e">> :> <<"%", "(", "s", "t", "r", "i", "n", "g", ")", "s">> @@
  <<"N", "C", "N", "a", "m", "e">> :> <<"%", "(", "s", "t", "r", "i", "n", "g", ")", "s">> @@
  <<"I", "D">> :> None @@
  <<"I", "D", "R", "E", "F">> :> None @@
  <<"I", "D", "R", "E", "F", "S">> :> None @@
  <<"E", "N", "T", "I", "T", "Y">> :> None @@
  <<"E", "N", "T", "I", "T", "I", "E", "S">> :> None @@
  <<"i", "n", "t", "e", "g", "e", "r">> :> <<"i", "n", "t", "e", "g", "e", "r">> @@
  <<"n", "o", "n", "P", "o", "s", "i", "t", "i", "v", "e", "I", "n", "t", "e", "g", "e", "r">> :> <<"%", "(", "i", "n", "t", "e", "g", "e", "r", ")", "s">> @@
  <<"n", "e", "g", "a", "t", "i", "v", "e", "I", "n", "t", "e", "g", "e", "r">> :> <<"%", "(", "i", "n", "t", "e", "g", "e", "r", ")", "s">> @@
  <<"l", "o", "n", "g">> :> <<"%", "(", "i", "n", "t", "e", "g", "e", "r", ")", "s">> @@
  <<"i", "n", "t">> :> <<"%", "(", "i", "n", "t", "e", "g", "e", "r", ")", "s">> @@
  <<"s", "h", "o", "r", "t">> :> <<"%", "(", "i", "n", "t", "e", "g", "e", "r", ")", "s">> @@
  <<"b", "y", "t", "e">> :> <<"%", "(", "i", "n", "t", "e", "g", "e", "r", ")", "s">> @@
  <<"n", "o", "n", "N", "e", "g", "a", "t", "i", "v", "e", "I", "n", "t", "e", "g", "e", "r">> :> <<"%", "(", "i", "n", "t", "e", "g", "e", "r", ")", "s">> @@
  <<"u", "n", "s", "i", "g", "n", "e", "d", "L", "o", "n", "g">> :> <<"%", "(", "i", "n", "t", "e", "g", "e", "r", ")", "s">> @@
  <<"u", "n", "s", "i", "g", "n", "e", "d", "I", "n", "t">> :> <<"%", "(", "i", "n", "t", "e", "g", "e", "r", ")", "s">> @@
  <<"u", "n", "s", "i", "g", "n", "e", "d", "S", "h", "o", "r", "t">> :> <<"%", "(", "i", "n", "t", "e", "g", "e", "r", ")", "s">> @@
  <<"u", "n", "s", "i", "g", "n", "e", "d", "B", "y", "t", "e">> :> <<"%", "(", "i", "n", "t", "e", "g", "e", "r", ")", "s">> @@
  <<"p", "o", "s", "i", "t", "i", "v", "e", "I", "n", "t", "e", "g", "e", "r">> :> <<"%", "(", "i", "n", "t", "e", "g", "e", "r", ")", "s">>

XMLS_PREFIX == <<"x", "s", ":">>
DLICAN_PREFIX == <<"d", "l", "i", "c", "a", "n", ":">>
DEFAULT_TYPE == <<"s", "t", "r", "i", "n", "g">>

(***************************************************************************)
(* class SDict(dict): every value read is %-formatted with the dictionary  *)
(* itself as the mapping, so '%(integer)s' reads self['integer'].  A value *)
(* None has no % operator: None % self raises TypeError.                   *)
(***************************************************************************)
RECURSIVE SDict_getitem(_), Format(_)

\* fmt % self, for the conversions the table uses: %(key)s
Format(fmt) ==
  LET p == IndexOf(fmt, "%") IN
  IF p = 0 THEN fmt
  ELSE LET after == SubSeq(fmt, p + 2, Len(fmt))
           q     == IndexOf(after, ")")
           key   == SubSeq(after, 1, q - 1)
           rest  == SubSeq(after, q + 2, Len(after))
           sub   == SDict_getitem(key)
           tail  == Format(rest)
       IN IF IsRaised(sub) THEN sub
          ELSE IF IsRaised(tail) THEN tail
          ELSE SubSeq(fmt, 1, p - 1) \o sub \o tail

\* SDict.__getitem__
SDict_getitem(item) ==
  IF item \notin DOMAIN DEFX2P THEN KeyError
  ELSE IF DEFX2P[item] = None THEN TypeError
  ELSE Format(DEFX2P[item])

\* SDict.get: only KeyError is caught
SDict_get(item) ==
  LET r == SDict_getitem(item) IN
  IF r = KeyError THEN None ELSE r

(***************************************************************************)
(* Normalize strings like column names for PG                              *)
(***************************************************************************)
pg_normalize(string) ==
  LET s0 == IF Truthy(string) THEN string ELSE <<>>
      s1 == StrReplace(s0, <<"-">>, <<"_">>)
      s2 == StrReplace(s1, <<".">>, <<"_">>)
      s3 == StrReplace(s2, <<" ">>, <<"_">>)
  IN StrLower(s3)

(***************************************************************************)
(* The parsed document.  x.get(attr) is the field; an absent attribute is  *)
(* None.                                                                   *)
(***************************************************************************)
Node(tag, name, type, ref, base, kids) ==
  [tag |-> tag, name |-> name, type |-> type, ref |-> ref, base |-> base,
   kids |-> kids]

Element(name, type, ref, kids) == Node("element", name, type, ref, None, kids)
ComplexType(name, kids) == Node("complexType", name, None, None, None, kids)
Sequence(kids) == Node("sequence", None, None, None, None, kids)
SimpleType(name, base) ==
  Node("simpleType", name, None, None, None,
       <<Node("restriction", None, None, None, base, <<>>)>>)
Schema(kids) == Node("schema", None, None, None, None, kids)

\* the node at a path below the schema element
RECURSIVE At(_, _)
At(node, path) ==
  IF path = <<>> THEN node ELSE At(node.kids[Head(path)], Tail(path))

\* el.findall(ns + tag): the direct children with that tag, in document
\* order, as child indices
findall(node, tag) ==
  SelectSeq([i \in 1..Len(node.kids) |-> i],
            LAMBDA i : node.kids[i].tag = tag)

\* find's None, among paths (child indices start at 1)
NoNode == <<0>>

\* root.find("r:complexType[@name='...']"): the first top-level complexType
\* of that name, as a path, or NoNode
root_find(root, name) ==
  LET hits == SelectSeq(findall(root, "complexType"),
                        LAMBDA i : root.kids[i].name = name)
  IN IF hits = <<>> THEN NoNode ELSE <<Head(hits)>>

\* the truth value of an lxml element: whether it has children
ElementTruthy(node) == Len(node.kids) > 0

(***************************************************************************)
(* Input documents: five leaf elements, put in the element lists of six    *)
(* document shapes.                                                        *)
(***************************************************************************)
LeafPool == <<
  Element(<<"O", "r", "d", "e", "r", "I", "d">>, <<"x", "s", ":", "i", "n", "t", "e", "g", "e", "r">>, None, <<>>),
  Element(<<"C", "u", "s", "t", "o", "m", "e", "r", "-", "N", "a", "m", "e">>, <<"x", "s", ":", "s", "t", "r", "i", "n", "g">>, None, <<>>),
  Element(<<"K", "e", "y">>, <<"x", "s", ":", "I", "D">>, None, <<>>),
  Element(<<"I", "t", "e", "m">>, <<"T">>, None, <<>>),
  Element(<<"C", "o", "d", "e">>, <<"c", "o", "d", "e">>, None, <<>>),
  Element(None, None, <<"q", "t", "y">>, <<>>) >>

\* the element lists: 1 to MaxLeaves leaves of the pool
LeafLists ==
  UNION { [1..n -> 1..Len(LeafPool)] : n \in 1..MaxLeaves }

Leaves(ls) == [i \in 1..Len(ls) |-> LeafPool[ls[i]]]

\* <xs:element name="Order"><xs:complexType><xs:sequence> kids
Container(name, kids) ==
  Element(name, None, None, <<ComplexType(None, <<Sequence(kids)>>)>>)

UserTypeDecls == <<
  SimpleType(<<"c", "o", "d", "e">>, <<"x", "s", ":", "s", "t", "r", "i", "n", "g">>),
  Element(<<"q", "t", "y">>, <<"x", "s", ":", "i", "n", "t">>, None, <<>>) >>

Shapes == {"root", "top", "named", "nested", "user", "mutual"}

Document(shape, ls) ==
  CASE shape = "root" ->
         Schema(<<Container(<<"O", "r", "d", "e", "r">>, Leaves(ls))>>)
    [] shape = "top" ->
         Schema(UserTypeDecls \o Leaves(ls) \o
                <<ComplexType(<<"T">>,
                    <<Sequence(<<Element(<<"c">>, <<"x", "s", ":", "s", "t", "r", "i", "n", "g">>, None, <<>>)>>)>>)>>)
    [] shape = "named" ->
         Schema(<<ComplexType(<<"T">>, <<Sequence(Leaves(ls))>>),
                  Element(<<"I", "t", "e", "m">>, <<"T">>, None, <<>>)>>)
    [] shape = "nested" ->
         Schema(<<Container(<<"O", "r", "d", "e", "r">>,
                    <<Leaves(ls)[1],
                      Container(<<"I", "n", "n", "e", "r">>,
                        <<Element(<<"c">>, <<"x", "s", ":", "s", "t", "r", "i", "n", "g">>, None, <<>>)>>)>>
                    \o Tail(Leaves(ls)))>>)
    [] shape = "user" ->
         Schema(UserTypeDecls \o <<Container(<<"O", "r", "d", "e", "r">>, Leaves(ls))>>)
    [] shape = "mutual" ->
         Schema(<<Container(<<"O", "r", "d", "e", "r">>,
                    <<Element(<<"c">>, <<"x", "s", ":", "s", "t", "r", "i", "n", "g">>, None, <<>>)>>),
                  ComplexType(<<"T">>,
                    <<Sequence(<<Element(<<"P", "a", "r", "t">>, <<"U">>, None, <<>>)>>)>>),
                  ComplexType(<<"U">>, <<Sequence(Leaves(ls))>>)>>)

FileNames == { <<"M", "y", "-", "F", "i", "l", "e", ".", "v", "2", ".", "x", "s", "d">> }

(***************************************************************************)
(* Take care of any types that were defined in the XSD                     *)
(***************************************************************************)
AttributeError == <<"<AttributeError>">>

\* the loop over the top-level elements; r is [raised, types]
RECURSIVE RegisterElements(_, _, _)
RegisterElements(root, idxs, types) ==
  IF idxs = <<>> THEN [raised |-> None, types |-> types]
  ELSE LET el == root.kids[Head(idxs)] IN
       IF Truthy(el.name) /\ Truthy(el.type)
       THEN LET v == SDict_get(StrReplace(el.type, XMLS_PREFIX, <<>>)) IN
            IF IsRaised(v) THEN [raised |-> v, types |-> types]
            ELSE RegisterElements(root, Tail(idxs),
                                  (pg_normalize(el.name) :> v) @@ types)
       ELSE RegisterElements(root, Tail(idxs), types)

\* the loop over the top-level simpleTypes: the base is stored as written,
\* less the prefix
RECURSIVE RegisterSimpleTypes(_, _, _)
RegisterSimpleTypes(root, idxs, types) ==
  IF idxs = <<>> THEN [raised |-> None, types |-> types]
  ELSE LET el    == root.kids[Head(idxs)]
           restr == findall(el, "restriction")
       IN IF restr = <<>> \/ el.kids[Head(restr)].base = None
          THEN [raised |-> AttributeError, types |-> types]
          ELSE RegisterSimpleTypes(root, Tail(idxs),
                 (pg_normalize(el.name) :>
                    StrReplace(el.kids[Head(restr)].base, XMLS_PREFIX, <<>>))
                 @@ types)

buildTypes(root, types) ==
  LET r == RegisterElements(root, findall(root, "element"), types) IN
  IF r.raised # None THEN r
  ELSE RegisterSimpleTypes(root, findall(root, "simpleType"), r.types)

\* dict.get
DictGet(d, k) == IF k \in DOMAIN d THEN d[k] ELSE None

(***************************************************************************)
(* State                                                                   *)
(***************************************************************************)
VARIABLES
  shape, leaves,   \* the input document: xsd = etree.parse(f)
  fname,           \* f.name
  failOnBadType,   \* args.failOnBadType
  as_is,           \* args.as_is
  pc,              \* main's position
  USER_TYPES,      \* the module's dictionary of user types
  stack,           \* the activations of look4element, the innermost last
  rez,             \* the value the last activation returned
  outcome,         \* "running", "returned", or the exception that ended main
  result           \* main's result[1], None until look4element has returned

inputs == <<shape, leaves, fname, failOnBadType, as_is>>
vars == <<shape, leaves, fname, failOnBadType, as_is, pc, USER_TYPES, stack,
          rez, outcome, result>>

xsd == Document(shape, leaves)

NoRez == [children |-> FALSE, sql |-> <<>>, emitted |-> <<>>]

Init ==
  /\ shape \in Shapes
  /\ leaves \in LeafLists
  /\ fname \in FileNames
  /\ failOnBadType \in BOOLEAN
  /\ as_is \in BOOLEAN
  /\ pc = "buildTypes"
  /\ USER_TYPES = <<>>
  /\ stack = <<>>
  /\ rez = NoRez
  /\ outcome = "running"
  /\ result = None

(***************************************************************************)
(* look4element                                                            *)
(***************************************************************************)
\* a new activation, at its first line
Frame(el, parent, recurse_level, fail, normalize) ==
  [el |-> el, parent |-> parent, recurse_level |-> recurse_level,
   fail |-> fail, normalize |-> normalize,
   pc |-> "l138", i |-> 0, cols |-> None, children |-> FALSE,
   sql |-> <<>>, emitted |-> <<>>]

Top == stack[Len(stack)]
Below == SubSeq(stack, 1, Len(stack) - 1)

\* where the activations below the innermost one wait for their callee:
\* the call path of the innermost activation
CallPath == [k \in 1..(Len(stack) - 1) |-> <<stack[k].pc, stack[k].i>>]

\* the level passed on as it is
CalleeLevelUnchanged(f) == f.recurse_level

\* recurse_level + 1
CalleeLevel(f) == f.recurse_level + 1

\* recursive calls pass fail=fail and no normalize: it defaults to True
CalleeNormalize(f) == TRUE

\* x.get('name') or parent
CalleeParent(x, f) == Or(x.name, f.parent)

\* "%s" % v
PyStr(v) == IF v = None THEN <<"N", "o", "n", "e">> ELSE v

\* sql = rez[1] + '\n' + sql
JoinPrepended(f, r) ==
  [f EXCEPT !.sql = r.sql \o <<"\n">> \o f.sql,
            !.emitted = r.emitted \o f.emitted]

\* sql += rez[1] + '\n'
Join(f, r) ==
  [f EXCEPT !.sql = f.sql \o r.sql \o <<"\n">>,
            !.emitted = f.emitted \o r.emitted]

\* """CREATE TABLE %s (%s);""" % (parent, cols)
CreateTable(parent, cols) ==
  <<"C", "R", "E", "A", "T", "E", " ", "T", "A", "B", "L", "E", " ">> \o PyStr(parent) \o <<" ", "(">> \o cols \o <<")", ";">>

\* lines 173-174; emitted records which activation, of which node, wrote
\* each statement of sql
EmitTable(f, path) ==
  IF Truthy(f.cols)
  THEN [f EXCEPT !.sql = f.sql \o CreateTable(f.parent, f.cols),
                 !.emitted = Append(f.emitted,
                               [el |-> f.el, call |-> path,
                                stmt |-> CreateTable(f.parent, f.cols)])]
  ELSE f

\* lines 163-170
ColumnName(x, normalize) ==
  LET colName == Or(x.name, x.ref) IN
  IF normalize THEN pg_normalize(colName) ELSE PyStr(colName)

AddColumn(cols, colName, pgType) ==
  IF ~Truthy(cols) THEN colName \o <<" ">> \o pgType
  ELSE cols \o <<",", " ">> \o colName \o <<" ">> \o pgType

\* line 152-153
TypeKey(x) ==
  StrReplace(Or(x.type, Or(x.ref, DEFAULT_TYPE)), XMLS_PREFIX, <<>>)

\* line 155: DEFX2P.get(k) or USER_TYPES.get(k) or None; TypeError when
\* DEFX2P.get raises it
ResolveType(k, types) ==
  LET d == SDict_get(k) IN
  IF IsRaised(d) THEN d ELSE Or(d, Or(DictGet(types, k), None))

\* lines 157-159: the named complexType to walk for an unresolved type, or
\* NoNode: "if type_node" is false for no node and for a node without children
TypeNode(root, k) ==
  LET type_node == root_find(root, StrReplace(k, DLICAN_PREFIX, <<>>)) IN
  IF type_node # NoNode /\ ElementTruthy(At(root, type_node))
  THEN type_node ELSE NoNode

\* an exception leaves every activation and main
Raise(exc) ==
  /\ stack' = <<>>
  /\ rez' = NoRez
  /\ outcome' = exc
  /\ pc' = "done"
  /\ UNCHANGED <<inputs, USER_TYPES, result>>

Continue(newStack) ==
  /\ stack' = newStack
  /\ rez' = NoRez
  /\ UNCHANGED <<inputs, USER_TYPES, pc, outcome, result>>

\* main, line 297
BuildTypes ==
  /\ pc = "buildTypes"
  /\ LET r == buildTypes(xsd, USER_TYPES) IN
     \/ /\ r.raised # None
        /\ outcome' = (IF r.raised = TypeError THEN "TypeError"
                       ELSE "AttributeError")
        /\ pc' = "done"
        /\ UNCHANGED <<inputs, USER_TYPES, stack, rez, result>>
     \/ /\ r.raised = None
        /\ USER_TYPES' = r.types
        /\ pc' = "look4element"
        /\ UNCHANGED <<inputs, stack, rez, outcome, result>>

\* main, lines 301-306
StartWalk ==
  /\ pc = "look4element"
  /\ stack = <<>>
  /\ stack' = <<Frame(<<>>, pg_normalize(SplitFirst(fname, ".")), 0,
                      failOnBadType, ~as_is)>>
  /\ pc' = "walking"
  /\ UNCHANGED <<inputs, USER_TYPES, rez, outcome, result>>

Running == pc = "walking" /\ stack # <<>>

\* line 138 to 141
Enter ==
  /\ Running
  /\ Top.pc = "l138"
  /\ \/ /\ Top.recurse_level > MAX_RECURSE_LEVEL
        /\ Raise("MaxRecursion")
     \/ /\ Top.recurse_level <= MAX_RECURSE_LEVEL
        /\ Continue(Below \o <<[Top EXCEPT !.pc = "l142", !.i = 1]>>)

\* line 142 to the call of line 145, or past the loop lines 173-174
ElementLoop ==
  /\ Running
  /\ Top.pc = "l142"
  /\ LET xs == findall(At(xsd, Top.el), "element") IN
     \/ /\ Top.i <= Len(xs)
        /\ LET el == Append(Top.el, xs[Top.i]) IN
           Continue(Below \o
             <<[Top EXCEPT !.children = TRUE, !.pc = "l146"],
               Frame(el, CalleeParent(At(xsd, el), Top), CalleeLevel(Top),
                     Top.fail, CalleeNormalize(Top))>>)
     \/ /\ Top.i > Len(xs)
        /\ Continue(Below \o
             <<[EmitTable(Top, CallPath) EXCEPT !.pc = "l175", !.i = 1]>>)

\* lines 146 to 171, the call of line 145 having returned rez
AfterElement ==
  /\ Running
  /\ Top.pc = "l146"
  /\ LET f  == Join(Top, rez)
         x  == At(xsd, Append(Top.el, findall(At(xsd, Top.el), "element")[Top.i]))
         k  == TypeKey(x)
         pgType == ResolveType(k, USER_TYPES)
         type_node == TypeNode(xsd, k)
         next == [f EXCEPT !.pc = "l142", !.i = f.i + 1]
     IN
     \/ /\ rez.children
        /\ Continue(Below \o <<next>>)
     \/ /\ ~rez.children
        /\ IsRaised(pgType)
        /\ Raise("TypeError")
     \/ /\ ~rez.children
        /\ ~IsRaised(pgType)
        /\ ~Truthy(pgType)
        /\ type_node # NoNode
        /\ Continue(Below \o
             <<[f EXCEPT !.pc = "l161"],
               Frame(type_node, At(xsd, type_node).name, CalleeLevel(Top),
                     Top.fail, CalleeNormalize(Top))>>)
     \/ /\ ~rez.children
        /\ ~IsRaised(pgType)
        /\ ~Truthy(pgType)
        /\ type_node = NoNode
        /\ Continue(Below \o <<next>>)
     \/ /\ ~rez.children
        /\ ~IsRaised(pgType)
        /\ Truthy(pgType)
        /\ Continue(Below \o
             <<[next EXCEPT !.cols =
                  AddColumn(f.cols, ColumnName(x, f.normalize), pgType)]>>)

\* line 161, the call of line 160 having returned rez
AfterType ==
  /\ Running
  /\ Top.pc = "l161"
  /\ Continue(Below \o
       <<[Join(Top, rez) EXCEPT !.pc = "l142", !.i = Top.i + 1]>>)

\* line 175 to the call of line 177, or past the loop
ComplexTypeLoop ==
  /\ Running
  /\ Top.pc = "l175"
  /\ LET xs == findall(At(xsd, Top.el), "complexType") IN
     \/ /\ Top.i <= Len(xs)
        /\ LET el == Append(Top.el, xs[Top.i]) IN
           Continue(Below \o
             <<[Top EXCEPT !.children = TRUE, !.pc = "l178"],
               Frame(el, CalleeParent(At(xsd, el), Top), CalleeLevel(Top),
                     Top.fail, CalleeNormalize(Top))>>)
     \/ /\ Top.i > Len(xs)
        /\ Continue(Below \o <<[Top EXCEPT !.pc = "l179", !.i = 1]>>)

\* line 178
AfterComplexType ==
  /\ Running
  /\ Top.pc = "l178"
  /\ Continue(Below \o
       <<[Join(Top, rez) EXCEPT !.pc = "l175", !.i = Top.i + 1]>>)

\* line 179 to the call of line 181, or past the loop
SequenceLoop ==
  /\ Running
  /\ Top.pc = "l179"
  /\ LET xs == findall(At(xsd, Top.el), "sequence") IN
     \/ /\ Top.i <= Len(xs)
        /\ LET el == Append(Top.el, xs[Top.i]) IN
           Continue(Below \o
             <<[Top EXCEPT !.children = TRUE, !.pc = "l182"],
               Frame(el, CalleeParent(At(xsd, el), Top), CalleeLevel(Top),
                     Top.fail, CalleeNormalize(Top))>>)
     \/ /\ Top.i > Len(xs)
        /\ Continue(Below \o <<[Top EXCEPT !.pc = "l183"]>>)

\* line 182
AfterSequence ==
  /\ Running
  /\ Top.pc = "l182"
  /\ Continue(Below \o
       <<[Join(Top, rez) EXCEPT !.pc = "l179", !.i = Top.i + 1]>>)

\* line 183: return (children, sql), to the caller or to main (line 305)
Return ==
  /\ Running
  /\ Top.pc = "l183"
  /\ stack' = Below
  /\ rez' = [children |-> Top.children, sql |-> Top.sql,
             emitted |-> Top.emitted]
  /\ \/ /\ Below # <<>>
        /\ UNCHANGED <<pc, outcome, result>>
     \/ /\ Below = <<>>
        /\ pc' = "done"
        /\ outcome' = "returned"
        /\ result' = Top.sql
  /\ UNCHANGED <<inputs, USER_TYPES>>

Next ==
  \/ BuildTypes
  \/ StartWalk
  \/ Enter
  \/ ElementLoop
  \/ AfterElement
  \/ AfterType
  \/ ComplexTypeLoop
  \/ AfterComplexType
  \/ SequenceLoop
  \/ AfterSequence
  \/ Return

Spec == Init /\ [][Next]_vars

(***************************************************************************)
(* Vocabulary of the properties                                            *)
(***************************************************************************)
Contains(s, pat) ==
  \E i \in 1..(Len(s) - Len(pat) + 1) : SubSeq(s, i, i + Len(pat) - 1) = pat

\* the number of statements of sql: the places where CREATE TABLE begins
StatementCount(sql) ==
  LET pat == <<"C", "R", "E", "A", "T", "E", " ", "T", "A", "B", "L", "E", " ">> IN
  Cardinality({ i \in 1..(Len(sql) - Len(pat) + 1) :
                  SubSeq(sql, i, i + Len(pat) - 1) = pat })

\* the DDL without the newlines that separate its statements
Statements(sql) == SelectSeq(sql, LAMBDA c : c # "\n")

\* a column of that name in some statement of sql
HasColumn(sql, name) ==
  \/ Contains(sql, <<"(">> \o name \o <<" ">>)
  \/ Contains(sql, <<",", " ">> \o name \o <<" ">>)

Finished == pc = "done"
Returned == pc = "done" /\ outcome = "returned"

\* the paths of the nodes of a subtree
RECURSIVE Paths(_, _)
Paths(node, prefix) ==
  {prefix} \cup
  UNION { Paths(node.kids[i], Append(prefix, i)) : i \in 1..Len(node.kids) }

\* an element without element, complexType or sequence children
IsLeafElement(n) ==
  /\ n.tag = "element"
  /\ \A i \in 1..Len(n.kids) :
       n.kids[i].tag \notin {"element", "complexType", "sequence"}

LeafElements(root) ==
  { p \in Paths(root, <<>>) : IsLeafElement(At(root, p)) }

UnsupportedNames ==
  { <<"I", "D">>, <<"I", "D", "R", "E", "F">>, <<"I", "D", "R", "E", "F", "S">>, <<"N", "O", "T", "A", "T", "I", "O", "N">>, <<"Q", "N", "a", "m", "e">>, <<"N", "M", "T", "O", "K", "E", "N">>,
    <<"N", "M", "T", "O", "K", "E", "N", "S">>, <<"E", "N", "T", "I", "T", "Y">>, <<"E", "N", "T", "I", "T", "I", "E", "S">> }

\* a leaf whose type is an unsupported primitive
IsUnsupportedLeaf(n) == TypeKey(n) \in UnsupportedNames

\* a leaf whose type is neither built in, nor a user type, nor a top-level
\* named complexType
IsUnresolvedLeaf(n, types) ==
  /\ TypeKey(n) \notin DOMAIN DEFX2P
  /\ ~Truthy(DictGet(types, TypeKey(n)))
  /\ root_find(xsd, StrReplace(TypeKey(n), DLICAN_PREFIX, <<>>)) = NoNode

HasUnsupportedLeaf ==
  \E p \in LeafElements(xsd) : IsUnsupportedLeaf(At(xsd, p))

HasBadLeaf ==
  \E p \in LeafElements(xsd) :
    IsUnsupportedLeaf(At(xsd, p)) \/ IsUnresolvedLeaf(At(xsd, p), USER_TYPES)

\* the leaf whose type the innermost activation is about to resolve
ResolvingLeaf ==
  /\ Running
  /\ Top.pc = "l146"
  /\ ~rez.children

LeafBeingResolved ==
  At(xsd, Append(Top.el, findall(At(xsd, Top.el), "element")[Top.i]))

\* the names of the top-level complexTypes, and the ones a type's leaves
\* refer to
TypeNames ==
  { xsd.kids[i].name : i \in { j \in 1..Len(xsd.kids) :
                                 xsd.kids[j].tag = "complexType" } }

TypeRefs(name) ==
  LET t == root_find(xsd, name) IN
  { TypeKey(At(xsd, t \o p)) :
      p \in { q \in Paths(At(xsd, t), <<>>) :
                /\ IsLeafElement(At(xsd, t \o q))
                /\ TypeKey(At(xsd, t \o q)) \in TypeNames } }

RECURSIVE ReachableTypes(_, _)
ReachableTypes(from, n) ==
  IF n = 0 THEN from
  ELSE ReachableTypes(from \cup UNION { TypeRefs(t) : t \in from }, n - 1)

\* some named complexType refers back to itself, directly or through others
SelfReferential ==
  \E t \in TypeNames :
    t \in ReachableTypes(TypeRefs(t), Cardinality(TypeNames))

IsProperPrefix(p, q) == Len(p) < Len(q) /\ SubSeq(q, 1, Len(p)) = p

\* the Order document, normalization on
C1_OrderDocument == shape = "root" /\ leaves = <<1, 2>> /\ ~as_is

(***************************************************************************)
(* C1: with normalization on, the document whose root element Order holds  *)
(* the leaves OrderId (xs:integer) and Customer-Name (xs:string) yields    *)
(* exactly one statement, CREATE TABLE order (orderid integer,             *)
(* customer_name varchar);                                                 *)
(***************************************************************************)
C1_NormalizedOrderTable ==
  (Finished /\ C1_OrderDocument) =>
    /\ outcome = "returned"
    /\ StatementCount(result) = 1
    /\ Statements(result) =
         <<"C", "R", "E", "A", "T", "E", " ", "T", "A", "B", "L", "E", " ", "o", "r", "d", "e", "r", " ", "(", "o", "r", "d", "e", "r", "i", "d", " ", "i", "n", "t", "e", "g", "e", "r", ",", " ", "c", "u", "s", "t", "o", "m", "e", "r", "_", "n", "a", "m", "e", " ", "v", "a", "r", "c", "h", "a", "r", ")", ";">>

\* the end of a strict walk of a document with such a leaf
C2_StrictStep ==
  (Running /\ failOnBadType /\ HasBadLeaf /\ pc' = "done")
    => outcome' = "InvalidXMLType"

(***************************************************************************)
(* C2: in strict mode (failOnBadType), a leaf whose type is an unsupported *)
(* primitive or resolves to nothing ends the run in InvalidXMLType.        *)
(***************************************************************************)
C2_StrictModeFails == [][C2_StrictStep]_vars

\* a step of a lenient walk of a document with an unsupported leaf
C3_DropStep ==
  /\ (Running /\ ~failOnBadType /\ HasUnsupportedLeaf)
       => outcome' \in {"running", "returned", "MaxRecursion"}
  /\ (Running /\ ~failOnBadType /\ shape = "root" /\ leaves = <<3, 2>>
         /\ pc' = "done")
       => /\ outcome' = "returned"
          /\ HasColumn(result', <<"c", "u", "s", "t", "o", "m", "e", "r", "_", "n", "a", "m", "e">>)
          /\ ~HasColumn(result', <<"k", "e", "y">>)

(***************************************************************************)
(* C3: outside strict mode a leaf of an unsupported primitive type is      *)
(* dropped silently: the run raises no error, the leaf gives no column and *)
(* the other columns of its node are still emitted.                        *)
(***************************************************************************)
C3_UnsupportedLeafDropped == [][C3_DropStep]_vars

(***************************************************************************)
(* C4: for each unsupported primitive the built-in lookup returns None as  *)
(* a normal value: it does not raise, and the walker, given that None,     *)
(* goes on without looking for a named complexType.                        *)
(***************************************************************************)
C4_UnsupportedResolvesToNull ==
  (ResolvingLeaf /\ IsUnsupportedLeaf(LeafBeingResolved)) =>
    /\ \A k \in UnsupportedNames : SDict_get(k) = None
    /\ ~IsRaised(ResolveType(TypeKey(LeafBeingResolved), USER_TYPES))

\* the levels of the activations, and what the ceiling does to them
C5_DepthInv ==
  /\ \A k \in 1..Len(stack) :
       /\ stack[k].recurse_level = k - 1
       /\ stack[k].pc # "l138" => stack[k].recurse_level <= MAX_RECURSE_LEVEL
  /\ outcome = "MaxRecursion" => (result = None /\ stack = <<>>)

C5_CeilingStep ==
  /\ (Running /\ Top.pc = "l138" /\ Top.recurse_level > MAX_RECURSE_LEVEL)
       => (outcome' = "MaxRecursion" /\ stack' = <<>> /\ result' = None)
  /\ (Running /\ Top.pc = "l138" /\ Top.recurse_level <= MAX_RECURSE_LEVEL)
       => (outcome' = "running" /\ Len(stack') = Len(stack))
  /\ (outcome = "running" /\ outcome' = "MaxRecursion")
       => (Running /\ Top.pc = "l138"
           /\ Top.recurse_level > MAX_RECURSE_LEVEL)

(***************************************************************************)
(* C5: recurse_level is 0 in the activation main starts and one more in    *)
(* each activation than in its caller; an activation at a level of at most *)
(* 100 goes past the check of line 138, one at a level above 100 raises    *)
(* MaxRecursion, and MaxRecursion leaves every activation: main gets no    *)
(* DDL, whatever the activations had accumulated.                          *)
(***************************************************************************)
C5_RecursionCeiling == [](C5_DepthInv) /\ [][C5_CeilingStep]_vars

\* an activation at level 101 about to raise, a caller of it holding a
\* finished statement
C5_Witness ==
  /\ Running
  /\ Top.pc = "l138"
  /\ Top.recurse_level = MAX_RECURSE_LEVEL + 1
  /\ \E k \in 1..(Len(stack) - 1) : StatementCount(stack[k].sql) > 0

\* the column name of a leaf as the document writes it
RawName(n) == PyStr(Or(n.name, n.ref))

(***************************************************************************)
(* C6: started with normalize = false (--as-is), every column name of      *)
(* every statement is the element's raw name; started with normalize =     *)
(* true, every column name is normalized.                                  *)
(***************************************************************************)
C6_AsIsEverywhere ==
  Returned =>
    \A i \in 1..Len(LeafPool) :
      RawName(LeafPool[i]) # pg_normalize(RawName(LeafPool[i])) =>
        IF as_is
        THEN ~HasColumn(result, pg_normalize(RawName(LeafPool[i])))
        ELSE ~HasColumn(result, RawName(LeafPool[i]))

(***************************************************************************)
(* C7: after buildTypes every top-level simpleType and every top-level     *)
(* element with name and type is registered under its normalized name with *)
(* the relational type of its base or type, and a leaf of that type gets a *)
(* column of that relational type.                                         *)
(***************************************************************************)
C7_UserTypesResolved ==
  /\ pc = "look4element" =>
       \A i \in 1..Len(xsd.kids) :
         LET n == xsd.kids[i] IN
         /\ (n.tag = "simpleType") =>
              DictGet(USER_TYPES, pg_normalize(n.name)) =
                SDict_get(StrReplace(n.kids[1].base, XMLS_PREFIX, <<>>))
         /\ (n.tag = "element" /\ Truthy(n.name) /\ Truthy(n.type)) =>
              DictGet(USER_TYPES, pg_normalize(n.name)) =
                SDict_get(StrReplace(n.type, XMLS_PREFIX, <<>>))
  /\ (Returned /\ shape = "user" /\ leaves = <<5>>) =>
       Contains(result, <<"(", "c", "o", "d", "e", " ", "v", "a", "r", "c", "h", "a", "r", ")">>)

\* the statements of the returned DDL, in its order
Emitted == rez.emitted

\* q belongs to a descendant, in the document, of the node of p: the calls
\* from p's activation down to q's are calls on children
IsDescendantCall(p, q) ==
  /\ IsProperPrefix(p, q)
  /\ \A k \in (Len(p) + 1)..Len(q) : q[k][1] # "l161"

(***************************************************************************)
(* C8: the statements of the returned DDL are in document pre-order: the   *)
(* statement of a node comes before the statements of the node's           *)
(* descendants, and sibling subtrees follow the document's order.          *)
(***************************************************************************)
C8_PreOrder ==
  Returned =>
    \A i, j \in 1..Len(Emitted) :
      IsDescendantCall(Emitted[i].call, Emitted[j].call) => i < j

\* the place of a call among the calls of one activation
CallRank(c) ==
  CASE c[1] = "l146" -> <<1, c[2], 1>>
    [] c[1] = "l161" -> <<1, c[2], 2>>
    [] c[1] = "l178" -> <<2, c[2], 1>>
    [] c[1] = "l182" -> <<3, c[2], 1>>

RankLess(a, b) ==
  \/ a[1] < b[1]
  \/ a[1] = b[1] /\ a[2] < b[2]
  \/ a[1] = b[1] /\ a[2] = b[2] /\ a[3] < b[3]

\* the statement of call path p is written before that of call path q
WrittenBefore(p, q) ==
  IF IsProperPrefix(p, q) THEN q[Len(p) + 1][1] \in {"l178", "l182"}
  ELSE IF IsProperPrefix(q, p) THEN p[Len(q) + 1][1] \in {"l146", "l161"}
  ELSE /\ p # q
       /\ LET d == CHOOSE k \in 1..Len(p) :
                     /\ k <= Len(q)
                     /\ p[k] # q[k]
                     /\ \A m \in 1..(k - 1) : p[m] = q[m]
          IN RankLess(CallRank(p[d]), CallRank(q[d]))

\* the texts of the recorded statements, one after the other
RECURSIVE StatementTexts(_)
StatementTexts(e) ==
  IF e = <<>> THEN <<>> ELSE Head(e).stmt \o StatementTexts(Tail(e))

(***************************************************************************)
(* C8, amended: the statement of a node comes after every statement made   *)
(* while walking its element children (and the named complexTypes walked   *)
(* for them) and before every statement made while walking its complexType *)
(* and sequence children; of the activations one activation starts, those  *)
(* for element children (each followed by the one for its named type) come *)
(* first, then those for complexType children, then those for sequence     *)
(* children, each group in document order.                                 *)
(***************************************************************************)
C8_ElementsFirstOrder ==
  Returned =>
    /\ Statements(result) = StatementTexts(Emitted)
    /\ \A i, j \in 1..Len(Emitted) :
         i < j => WrittenBefore(Emitted[i].call, Emitted[j].call)

\* a returned DDL in which the table of a container element, a child of a
\* sequence, precedes the table that sequence wrote
C8_Witness ==
  /\ Returned
  /\ \E i, j \in 1..Len(Emitted) :
       i < j /\ IsDescendantCall(Emitted[j].call, Emitted[i].call)

\* a returned DDL in which a node's table lies between the table of a type
\* walked for an element child and the table of a complexType child
C8_WitnessBetween ==
  /\ Returned
  /\ \E i, j, k \in 1..Len(Emitted) :
       /\ i < j /\ j < k
       /\ IsProperPrefix(Emitted[j].call, Emitted[i].call)
       /\ IsProperPrefix(Emitted[j].call, Emitted[k].call)
       /\ Emitted[i].call[Len(Emitted[j].call) + 1][1] = "l161"
       /\ Emitted[k].call[Len(Emitted[j].call) + 1][1] = "l178"

(***************************************************************************)
(* C9: a complete walk writes one statement per node: no node is walked    *)
(* twice to write two statements, so a top-level named complexType that an *)
(* element's type names gives a single CREATE TABLE.                       *)
(***************************************************************************)
C9_OneTablePerNode ==
  Returned =>
    \A i, j \in 1..Len(Emitted) :
      Emitted[i].el = Emitted[j].el => i = j

\* a step of the walk
C10_WalkEnds ==
  Running =>
    /\ outcome' \in {"running", "returned", "MaxRecursion"}
    /\ (outcome' # "running" /\ SelfReferential) => outcome' = "MaxRecursion"
    /\ \A k \in 1..Len(stack') :
         stack'[k].recurse_level <= MAX_RECURSE_LEVEL + 1

(***************************************************************************)
(* C10: the walk ends by returning or by MaxRecursion, no activation       *)
(* exists at a level above 101, and the walk of a document with a self- or *)
(* mutually-referential named type ends in MaxRecursion.                   *)
(***************************************************************************)
C10_Termination == [][C10_WalkEnds]_vars

====
